---------------------------- MODULE Spec2Model ----------------------------
(***************************************************************************)
(* Model of DynamicCdnWebpackPlugin (src/src/index.js): the module-factory *)
(* hook (execute) and the recursive asynchronous resolution procedure      *)
(* addModule, together with the registry modulesFromCdn.                   *)
(*                                                                         *)
(* An addModule call is a frame.  JavaScript runs an async function        *)
(* synchronously up to its first await, so one action of the model is one  *)
(* synchronous run of code between two suspension points:                  *)
(*   - entering addModule: lines 134-168, up to `await this.resolver(..)`; *)
(*   - the resolver's promise settling: lines 168-231 up to the next await;*)
(*   - an awaited child call settling (lines 185, 193) ;                   *)
(*   - the Promise.all of the peer calls settling (line 201);              *)
(*   - the hook resuming after `await this.addModule` (lines 119-129).     *)
(* Which suspended frame resumes next is a nondeterministic choice.        *)
(***************************************************************************)
EXTENDS Integers, Sequences, FiniteSets, TLC

VARIABLES
    options,         \* the options object handed to the constructor
    plugin,          \* this.exclude, this.only and whether construction succeeded
    modulesFromCdn,  \* this.modulesFromCdn: modulePath -> descriptor (NoConfig = no entry)
    frames,          \* every addModule call made so far, by its place in the call tree
    requests,        \* every module-request event the hook has received
    resolverCalls,   \* history: number of this.resolver invocations per modulePath
    overlapped       \* history: modulePath ever had two addModule calls in flight at once

vars == <<options, plugin, modulesFromCdn, frames, requests, resolverCalls, overlapped>>

(***************************************************************************)
(* Bounds of the model.                                                    *)
(***************************************************************************)
\* module requests per build
MaxRequests == 2
\* nesting of addModule calls
MaxDepth == 3
\* addModule calls per build
MaxCalls == 6

(***************************************************************************)
(* JavaScript values.                                                      *)
(***************************************************************************)
False == "<false>"
Undefined == "<undefined>"

\* Boolean(x) for the values addModule returns (a string, undefined or false)
Boolean(x) == x \notin {False, Undefined, ""}

\* an object used for its keys (Object.keys order), or an absent field
Obj(keys) == [present |-> TRUE, keys |-> keys]
Absent == [present |-> FALSE, keys |-> <<>>]

includes(list, x) == \E i \in 1..Len(list) : list[i] = x

(***************************************************************************)
(* Module paths are sequences of characters; moduleRegex is evaluated on   *)
(* them character by character.                                            *)
(***************************************************************************)
LowerDigit ==
    {"a","b","c","d","e","f","g","h","i","j","k","l","m","n","o","p","q","r",
     "s","t","u","v","w","x","y","z","0","1","2","3","4","5","6","7","8","9"}
WordChar == LowerDigit \cup {"A","B","C","X","_"}
NameChar == WordChar \cup {"-", "."}

\* the last index j >= i-1 such that s[i..j] lies within class C
RECURSIVE RunEnd(_, _, _)
RunEnd(s, i, C) ==
    IF i <= Len(s) /\ s[i] \in C THEN RunEnd(s, i + 1, C) ELSE i - 1

\* the end of the optional group (?:@[a-z\d][\w-.]+\/), 0 when it does not match
ScopeEnd(s) ==
    IF Len(s) >= 2 /\ s[1] = "@" /\ s[2] \in LowerDigit
    THEN LET j == RunEnd(s, 3, NameChar)
         IN  IF j >= 3 /\ j + 1 <= Len(s) /\ s[j + 1] = "/" THEN j + 1 ELSE 0
    ELSE 0

\* modulePath.match(moduleRegex)[1]; <<>> stands for no match
moduleRegexMatch(s) ==
    LET start == ScopeEnd(s) + 1
    IN  IF start <= Len(s) /\ s[start] \in LowerDigit
        THEN SubSeq(s, 1, RunEnd(s, start + 1, NameChar))
        ELSE <<>>

\* variant of moduleRegexTest that lets every request through
moduleRegexTest_Always(s) == TRUE

\* moduleRegex.test(modulePath)
moduleRegexTest(s) == moduleRegexMatch(s) # <<>>

(***************************************************************************)
(* The environment of one build: what is installed where, the package      *)
(* manifests, the resolution strategy and the dependency manifests on disk.*)
(***************************************************************************)
pA == <<"a">>
pB == <<"b">>
pE == <<"e">>
pF == <<"f">>
pN == <<"n">>
pP == <<"p">>
pQ == <<"q">>
pR == <<"r">>
pS == <<"s">>
pU == <<"u">>
pW == <<"w">>
pY == <<"y">>
pZ == <<"z">>
pRel == <<".", "/", "x">>
pScoped == <<"@", "s", "/", "a">>

ModulePaths == {pA, pB, pE, pF, pN, pP, pQ, pR, pS, pU, pW, pY, pZ, pRel, pScoped}
Contexts == {"c1", "c2"}

\* the import sites the build tool reports: (contextPath, modulePath)
RequestSites ==
    ({"c1"} \X ModulePaths) \cup {<<"c2", pA>>}

NoDir == <<>>

\* resolvePkg(moduleName, {cwd: contextPath}): the install directory, or NoDir.
\* Package a is installed separately below each context; n is not installed.
\* y lists itself as a dependency; z is a stylesheet-only asset without var.
resolvePkg(moduleName, contextPath) ==
    CASE moduleName = pA -> <<contextPath, "node_modules", "a">>
      [] moduleName \in {pB, pE, pF, pP, pQ, pR, pS, pU, pW, pY, pZ} ->
            <<"node_modules", moduleName[1]>>
      [] OTHER -> NoDir

Pkg(v, deps, peers) ==
    [readable |-> TRUE, version |-> v, dependencies |-> deps, peerDependencies |-> peers]
Unreadable ==
    [readable |-> FALSE, version |-> "", dependencies |-> Absent, peerDependencies |-> Absent]

\* readPkgUp.sync({cwd}).packageJson; an unparsable manifest makes the call throw
readPkgUpSync(cwd) ==
    CASE cwd = <<"c1", "node_modules", "a">> -> Pkg("1.0.0", Absent, Absent)
      [] cwd = <<"c2", "node_modules", "a">> -> Pkg("2.0.0", Absent, Absent)
      [] cwd = <<"node_modules", "b">> -> Pkg("1.0.0", Obj(<<pA>>), Absent)
      [] cwd = <<"node_modules", "e">> -> Pkg("1.0.0", Obj(<<pB>>), Obj(<<>>))
      [] cwd = <<"node_modules", "f">> -> Pkg("1.0.0", Absent, Absent)
      [] cwd = <<"node_modules", "p">> -> Pkg("1.0.0", Absent, Obj(<<pA, pB>>))
      [] cwd = <<"node_modules", "q">> -> Pkg("1.0.0", Obj(<<pE>>), Obj(<<pB>>))
      [] cwd = <<"node_modules", "r">> -> Pkg("1.0.0", Obj(<<>>), Obj(<<pA>>))
      [] cwd = <<"node_modules", "s">> -> Pkg("1.0.0", Absent, Obj(<<pR, pP>>))
      [] cwd = <<"node_modules", "w">> -> Pkg("1.0.0", Obj(<<pR, pB>>), Obj(<<pZ, pA>>))
      [] cwd = <<"node_modules", "y">> -> Pkg("1.0.0", Obj(<<pY>>), Absent)
      [] cwd = <<"node_modules", "z">> -> Pkg("1.0.0", Absent, Absent)
      [] OTHER -> Unreadable

Config(name, var, version, path) ==
    [kind |-> "config", name |-> name, var |-> var, version |-> version, path |-> path]
NoConfig == [kind |-> "null", name |-> "", var |-> "", version |-> "", path |-> ""]
Rejected == [kind |-> "rejected", name |-> "", var |-> "", version |-> "", path |-> ""]

\* what the promise of this.resolver(modulePath, version, {env}) settles to:
\* a descriptor for the requested version, null, or a rejection
resolver(modulePath, version) ==
    CASE modulePath = pA -> Config("a", "A", version, "/umd/a")
      [] modulePath = pE -> Config("e", "E", version, "/umd/e")
      [] modulePath = pP -> Config("p", "P", version, "/umd/p")
      [] modulePath = pQ -> Config("q", "Q", version, "/dist/q")
      [] modulePath = pR -> Config("r", "R", version, "/umd/r")
      [] modulePath = pS -> Config("s", "S", version, "/umd/s")
      [] modulePath = pW -> Config("w", "W", version, "/umd/w")
      [] modulePath = pY -> Config("y", "Y", version, "/umd/y")
      [] modulePath = pZ -> Config("z", Undefined, version, "/css/z")
      [] modulePath = pF -> Rejected
      [] OTHER -> NoConfig

\* getPackageRootPath(name): where require.resolve finds the package
getPackageRootPath(name) ==
    IF name \in {"a", "e", "p", "q", "r", "s", "w", "y", "z"} THEN <<"node_modules", name>> ELSE <<Undefined>>

\* `${getPackageRootPath(cdnConfig.name)}${cdnConfig.path}.dependencies.json`
depPathOf(cdnConfig) ==
    getPackageRootPath(cdnConfig.name) \o <<cdnConfig.path, ".dependencies.json">>

\* the dependency manifests on disk: only q ships one
ManifestFile == <<"node_modules", "q", "/dist/q", ".dependencies.json">>
fsExistsSync(depPath) == depPath = ManifestFile
\* Object.keys(require(depPath))
manifestKeys(depPath) == IF depPath = ManifestFile THEN <<pE, pB>> ELSE <<>>


(***************************************************************************)
(* constructor({exclude, only, ...}), lines 56-88.                         *)
(***************************************************************************)
Given(list) == [given |-> TRUE, list |-> list]
NotGiven == [given |-> FALSE, list |-> <<>>]

OptionSets ==
    { [exclude |-> NotGiven,       only |-> NotGiven],
      [exclude |-> Given(<<pE, pS, pW>>), only |-> NotGiven],
      [exclude |-> NotGiven,       only |-> Given(<<pA, pP, pR>>)],
      [exclude |-> Given(<<pE>>),  only |-> Given(<<pA>>)],
      [exclude |-> Given(<<>>),    only |-> Given(<<pA>>)] }

\* variant of constructorThrows that only objects to two non-empty lists
constructorThrows_NonEmpty(opts) ==
    /\ opts.exclude.given /\ opts.exclude.list # <<>>
    /\ opts.only.given /\ opts.only.list # <<>>

\* if (exclude && only) throw: an array, even an empty one, is truthy
constructorThrows(opts) == opts.exclude.given /\ opts.only.given

Unbuilt ==
    [state |-> "new", exclude |-> <<>>, hasOnly |-> FALSE, only |-> <<>>,
     hasRegistry |-> FALSE]

\* this.exclude = exclude || []; this.only = only || null
constructed(opts) ==
    [state |-> "ready",
     exclude |-> IF opts.exclude.given THEN opts.exclude.list ELSE <<>>,
     hasOnly |-> opts.only.given,
     only |-> opts.only.list,
     \* line 87: this.modulesFromCdn = {}
     hasRegistry |-> TRUE]

EmptyRegistry == [m \in ModulePaths |-> NoConfig]

(***************************************************************************)
(* addModule, lines 134-168: the synchronous run from the call to the      *)
(* first await.                                                            *)
(***************************************************************************)
\* variant of isModuleExcluded that forgets the `only` list
isModuleExcluded_ExcludeOnly(modulePath) == includes(plugin.exclude, modulePath)

\* lines 135-136
isModuleExcluded(modulePath) ==
    \/ includes(plugin.exclude, modulePath)
    \/ plugin.hasOnly /\ ~includes(plugin.only, modulePath)

\* variant of isModuleAlreadyLoaded without the memoization
isModuleAlreadyLoaded_Never(modulePath) == FALSE

\* line 152: Boolean(this.modulesFromCdn[modulePath])
isModuleAlreadyLoaded(modulePath) == modulesFromCdn[modulePath].kind = "config"

\* variant of isSameVersion that skips the version comparison
isSameVersion_Always(modulePath, version) == TRUE

\* line 154
isSameVersion(modulePath, version) == modulesFromCdn[modulePath].version = version

Settled == {"done", "threw"}

\* A frame is named by its place in the call tree: <<r>> is the call the hook
\* made for request r, Append(f, k) the k-th call made by frame f.
Frame(ctx, m, pc, version, result, how) ==
    [ctx |-> ctx, m |-> m, pc |-> pc, version |-> version,
     cdnConfig |-> NoConfig, todo |-> <<>>, awaiting |-> <<>>, kids |-> <<>>, made |-> 0,
     result |-> result, called |-> (pc = "resolver"), how |-> how]

\* The frame of a call addModule(contextPath, modulePath) as it stands at its
\* first suspension or at its synchronous return.  `how` records the exit taken.
NewFrame(contextPath, modulePath) ==
    IF isModuleExcluded(modulePath)
    THEN Frame(contextPath, modulePath, "done", "", False, "excluded")
    ELSE LET moduleName == moduleRegexMatch(modulePath) IN
    IF moduleName = <<>>
    THEN \* null[1]: TypeError
         Frame(contextPath, modulePath, "threw", "", Undefined, "threw")
    ELSE LET cwd == resolvePkg(moduleName, contextPath) IN
    IF cwd = NoDir
    THEN Frame(contextPath, modulePath, "done", "", False, "notInstalled")
    ELSE LET pkg == readPkgUpSync(cwd) IN
    IF ~pkg.readable
    THEN Frame(contextPath, modulePath, "threw", "", Undefined, "threw")
    ELSE IF isModuleAlreadyLoaded(modulePath)
    THEN IF isSameVersion(modulePath, pkg.version)
         THEN Frame(contextPath, modulePath, "done", pkg.version,
                    modulesFromCdn[modulePath].var, "hit")
         ELSE Frame(contextPath, modulePath, "done", pkg.version, False, "conflict")
    ELSE \* line 168: this.resolver is invoked, the call suspends on its promise
         Frame(contextPath, modulePath, "resolver", pkg.version, Undefined, "pending")

\* the packageJson the frame destructured at line 149
PkgOf(fr) == readPkgUpSync(resolvePkg(moduleRegexMatch(fr.m), fr.ctx))

(***************************************************************************)
(* addModule, lines 170-231: where a resumed call goes next.  An outcome   *)
(* is the frame as it will stand, the calls it makes synchronously         *)
(* (spawn) and whether it writes the registry (commit).                    *)
(***************************************************************************)
Outcome(fr, spawn, commit) == [fr |-> fr, spawn |-> spawn, commit |-> commit]

Throws(fr) == Outcome([fr EXCEPT !.pc = "threw", !.how = "threw"], <<>>, FALSE)

Returns(fr, value, how) ==
    Outcome([fr EXCEPT !.pc = "done", !.result = value, !.how = how], <<>>, FALSE)

\* variant of Commit that returns false when the descriptor carries no var
Commit_VarOrFalse(fr) ==
    Outcome([fr EXCEPT !.pc = "done",
                       !.result = IF fr.cdnConfig.var = Undefined THEN False
                                  ELSE fr.cdnConfig.var,
                       !.how = "commit"],
            <<>>, TRUE)

\* lines 229-231
Commit(fr) ==
    Outcome([fr EXCEPT !.pc = "done", !.result = fr.cdnConfig.var, !.how = "commit"],
            <<>>, TRUE)

\* variant of arePeerDependenciesLoaded that does not look at the results
arePeerDependenciesLoaded_Ignored(results) == TRUE

\* variant of arePeerDependenciesLoaded reducing with || instead of &&
arePeerDependenciesLoaded_Any(results) ==
    \E i \in 1..Len(results) : Boolean(results[i])

\* lines 220-221: .map(x => Boolean(x)).reduce((result, x) => result && x, true)
arePeerDependenciesLoaded(results) ==
    \A i \in 1..Len(results) : Boolean(results[i])

\* lines 199-203: every peer call is started before Promise.all is awaited
PeerStage(fr) ==
    LET peerDependencies == PkgOf(fr).peerDependencies
    IN  IF peerDependencies.present
        THEN Outcome([fr EXCEPT !.pc = "peers"], peerDependencies.keys, FALSE)
        ELSE Commit(fr)

\* lines 181-197
ExpandStage(fr) ==
    LET depPath == depPathOf(fr.cdnConfig)
        dependencies == PkgOf(fr).dependencies
    IN  IF fsExistsSync(depPath)
        THEN LET keys == manifestKeys(depPath)
             IN  IF keys = <<>>
                 THEN Commit(fr)
                 ELSE Outcome([fr EXCEPT !.pc = "manifestLoop", !.todo = Tail(keys)],
                              <<Head(keys)>>, FALSE)
        ELSE IF dependencies.present /\ dependencies.keys # <<>>
             THEN Outcome([fr EXCEPT !.pc = "depLoop", !.todo = Tail(dependencies.keys)],
                          <<Head(dependencies.keys)>>, FALSE)
             ELSE PeerStage(fr)

\* variant of AfterResolver without the `cdnConfig == null` early return
AfterResolver_NoNullCheck(fr) ==
    LET cdnConfig == resolver(fr.m, fr.version)
    IN  IF cdnConfig.kind = "rejected" THEN Throws(fr)
        ELSE ExpandStage([fr EXCEPT !.cdnConfig = cdnConfig])

\* lines 168-178: the resolver's promise has settled
AfterResolver(fr) ==
    LET cdnConfig == resolver(fr.m, fr.version)
    IN  CASE cdnConfig.kind = "rejected" -> Throws(fr)
          [] cdnConfig.kind = "null" -> Returns(fr, False, "null")
          [] OTHER -> ExpandStage([fr EXCEPT !.cdnConfig = cdnConfig])

\* variant of AfterLoopChild in which a dependency returning false fails the parent
AfterLoopChild_Gating(fr, child) ==
    IF child.pc = "threw" THEN Throws(fr)
    ELSE IF child.result = False THEN Returns(fr, False, "dependencyMissing")
    ELSE IF fr.todo # <<>>
    THEN Outcome([fr EXCEPT !.todo = Tail(fr.todo)], <<Head(fr.todo)>>, FALSE)
    ELSE IF fr.pc = "manifestLoop" THEN Commit(fr) ELSE PeerStage(fr)

\* lines 184-188 and 192-197: the awaited call of the loop has settled
AfterLoopChild(fr, child) ==
    IF child.pc = "threw" THEN Throws(fr)
    ELSE IF fr.todo # <<>>
    THEN Outcome([fr EXCEPT !.todo = Tail(fr.todo)], <<Head(fr.todo)>>, FALSE)
    ELSE IF fr.pc = "manifestLoop" THEN Commit(fr) ELSE PeerStage(fr)

\* lines 200-226: Promise.all has settled
AfterPeers(fr, kids) ==
    IF \E i \in 1..Len(kids) : kids[i].pc = "threw" THEN Throws(fr)
    ELSE IF arePeerDependenciesLoaded([i \in 1..Len(kids) |-> kids[i].result])
    THEN Commit(fr)
    ELSE Returns(fr, False, "peerMissing")

(***************************************************************************)
(* Applying an outcome to the state.                                       *)
(***************************************************************************)
InFlight(m) == {f \in DOMAIN frames : frames[f].m = m /\ frames[f].pc \notin Settled}

Spawned(children) ==
    /\ resolverCalls' =
         [m \in ModulePaths |->
            resolverCalls[m]
              + Cardinality({i \in 1..Len(children) : children[i].m = m /\ children[i].called})]
    /\ overlapped' =
         [m \in ModulePaths |->
            \/ overlapped[m]
            \/ (\E i \in 1..Len(children) : children[i].m = m) /\ InFlight(m) # {}]

\* variant of registryAfter that undoes the peers' entries when the parent fails
registryAfter_Rollback(out) ==
    IF out.commit
    THEN [modulesFromCdn EXCEPT ![out.fr.m] = out.fr.cdnConfig]
    ELSE IF out.fr.how = "peerMissing"
    THEN [m \in ModulePaths |->
            IF includes(PkgOf(out.fr).peerDependencies.keys, m)
            THEN NoConfig ELSE modulesFromCdn[m]]
    ELSE modulesFromCdn

\* variant of registryAfter that drops the write
registryAfter_Dropped(out) == modulesFromCdn

\* line 229: this.modulesFromCdn[modulePath] = cdnConfig, the only registry write
registryAfter(out) ==
    IF out.commit
    THEN [modulesFromCdn EXCEPT ![out.fr.m] = out.fr.cdnConfig]
    ELSE modulesFromCdn

Settle(f, out) ==
    LET n == Len(out.spawn)
        ids == [i \in 1..n |-> Append(f, frames[f].made + i)]
        fr0 == [out.fr EXCEPT !.made = @ + n]
        fr == IF fr0.pc = "peers" THEN [fr0 EXCEPT !.kids = ids]
              ELSE IF n = 1 THEN [fr0 EXCEPT !.awaiting = ids[1]]
              ELSE fr0
        children == [i \in 1..n |-> NewFrame(fr0.ctx, out.spawn[i])]
    IN  /\ n > 0 => Len(f) < MaxDepth
        /\ Cardinality(DOMAIN frames) + n <= MaxCalls
        /\ frames' =
             [g \in DOMAIN frames \cup {ids[i] : i \in 1..n} |->
                IF g = f THEN fr
                ELSE IF g \in DOMAIN frames THEN frames[g]
                ELSE children[g[Len(g)] - frames[f].made]]
        /\ modulesFromCdn' = registryAfter(out)
        /\ Spawned(children)
        /\ UNCHANGED <<options, plugin, requests>>

(***************************************************************************)
(* The state machine.                                                      *)
(***************************************************************************)
Init ==
    /\ options \in OptionSets
    /\ plugin = Unbuilt
    /\ modulesFromCdn = EmptyRegistry
    /\ frames = [f \in {} |-> 0]
    /\ requests = <<>>
    /\ resolverCalls = [m \in ModulePaths |-> 0]
    /\ overlapped = [m \in ModulePaths |-> FALSE]

\* new DynamicCdnWebpackPlugin(options), lines 56-88
Construct ==
    /\ plugin.state = "new"
    /\ plugin' = IF constructorThrows(options)
                 THEN [Unbuilt EXCEPT !.state = "failed"]
                 ELSE constructed(options)
    /\ UNCHANGED <<options, modulesFromCdn, frames, requests, resolverCalls, overlapped>>

\* the factory hook receives a module request, lines 110-121
Request(contextPath, modulePath) ==
    /\ plugin.state = "ready"
    /\ Len(requests) < MaxRequests
    /\ IF ~moduleRegexTest(modulePath)
       THEN /\ requests' = Append(requests,
                  [ctx |-> contextPath, m |-> modulePath, outcome |-> "factory"])
            /\ UNCHANGED <<frames, resolverCalls, overlapped>>
       ELSE LET fr == NewFrame(contextPath, modulePath)
                id == <<Len(requests) + 1>>
            IN  /\ Cardinality(DOMAIN frames) < MaxCalls
                /\ requests' = Append(requests,
                      [ctx |-> contextPath, m |-> modulePath, outcome |-> "pending"])
                /\ frames' = [g \in DOMAIN frames \cup {id} |->
                                IF g = id THEN fr ELSE frames[g]]
                /\ Spawned(<<fr>>)
    /\ UNCHANGED <<options, plugin, modulesFromCdn>>

\* line 168 resumes
ResolverSettles(f) ==
    /\ frames[f].pc = "resolver"
    /\ Settle(f, AfterResolver(frames[f]))

\* variant of LoopResume that goes on without waiting for the call it awaits
LoopResume_NoWait(f) ==
    /\ frames[f].pc \in {"manifestLoop", "depLoop"}
    /\ Settle(f, AfterLoopChild(frames[f], frames[frames[f].awaiting]))

\* line 185 or 193 resumes
LoopResume(f) ==
    /\ frames[f].pc \in {"manifestLoop", "depLoop"}
    /\ frames[frames[f].awaiting].pc \in Settled
    /\ Settle(f, AfterLoopChild(frames[f], frames[frames[f].awaiting]))

\* line 201 resumes: Promise.all rejects with the first rejection, and
\* fulfils once every peer call has returned
PeersJoin(f) ==
    LET kids == [i \in 1..Len(frames[f].kids) |-> frames[frames[f].kids[i]]]
    IN  /\ frames[f].pc = "peers"
        /\ \/ \E i \in 1..Len(kids) : kids[i].pc = "threw"
           \/ \A i \in 1..Len(kids) : kids[i].pc = "done"
        /\ Settle(f, AfterPeers(frames[f], kids))

\* lines 119-129: the hook resumes with varName
hookOutcome(fr) ==
    IF fr.pc = "threw" THEN "rejected"
    ELSE IF fr.result = False THEN "factory"
    ELSE IF fr.result = Undefined THEN "externalEmpty"
    ELSE "external"

HookResume(r) ==
    /\ requests[r].outcome = "pending"
    /\ frames[<<r>>].pc \in Settled
    /\ requests' = [requests EXCEPT ![r].outcome = hookOutcome(frames[<<r>>])]
    /\ UNCHANGED <<options, plugin, modulesFromCdn, frames, resolverCalls, overlapped>>

Next ==
    \/ Construct
    \/ \E site \in RequestSites : Request(site[1], site[2])
    \/ \E f \in DOMAIN frames : ResolverSettles(f)
    \/ \E f \in DOMAIN frames : LoopResume(f)
    \/ \E f \in DOMAIN frames : PeersJoin(f)
    \/ \E r \in 1..Len(requests) : HookResume(r)

Spec == Init /\ [][Next]_vars

(***************************************************************************)
(* Vocabulary of the properties.  These read the state and the environment *)
(* directly, not through the operators that model addModule's tests.       *)
(***************************************************************************)
HasEntry(m) == modulesFromCdn[m].kind = "config"

Eligible(m) ==
    /\ ~includes(plugin.exclude, m)
    /\ plugin.hasOnly => includes(plugin.only, m)

Installed(ctx, m) ==
    LET cwd == resolvePkg(moduleRegexMatch(m), ctx)
    IN  cwd # NoDir /\ readPkgUpSync(cwd).readable

InstalledVersion(ctx, m) == readPkgUpSync(resolvePkg(moduleRegexMatch(m), ctx)).version

StableVersion(m) ==
    \A c \in Contexts, d \in Contexts :
        /\ Installed(c, m)
        /\ InstalledVersion(c, m) = InstalledVersion(d, m)

\* the values the completed calls for m have returned
Returned(m) ==
    {frames[f].result : f \in {g \in DOMAIN frames : frames[g].m = m /\ frames[g].pc = "done"}}

Children(f) == {g \in DOMAIN frames : Len(g) = Len(f) + 1 /\ SubSeq(g, 1, Len(f)) = f}

HasManifest(fr) == fsExistsSync(depPathOf(fr.cdnConfig))

\* the peer calls of frame f that have returned a value satisfying P
PeerReturned(f, P(_)) ==
    {i \in 1..Len(frames[f].kids) :
        frames[frames[f].kids[i]].pc = "done" /\ P(frames[frames[f].kids[i]].result)}

IsFalse(x) == x = False

(***************************************************************************)
(* C1  Idempotence.                                                        *)
(***************************************************************************)
\* C1 as claimed: for a modulePath whose installed version is the same from
\* every context and whose calls never overlapped (and none of which raised),
\* the strategy has been invoked at most once and all completed calls
\* returned the same result, whatever the first outcome was.
C1_Original ==
    \A m \in ModulePaths :
        ( /\ StableVersion(m)
          /\ ~overlapped[m]
          /\ \A f \in DOMAIN frames : frames[f].m = m => frames[f].pc # "threw" )
        => resolverCalls[m] <= 1 /\ Cardinality(Returned(m)) <= 1

\* C1 as amended: once modulePath is committed to the registry the strategy is never
\* invoked for it again, and every call entered for it that sees the
\* committed version returns the committed var at once, leaving the registry
\* as it is.
C1_Idempotent ==
    [][\A m \in ModulePaths :
          HasEntry(m) =>
            /\ resolverCalls'[m] = resolverCalls[m]
            /\ \A f \in (DOMAIN frames') \ DOMAIN frames :
                 ( /\ frames'[f].m = m
                   /\ Installed(frames'[f].ctx, m)
                   /\ InstalledVersion(frames'[f].ctx, m) = modulesFromCdn[m].version )
                 => /\ frames'[f].pc = "done"
                    /\ frames'[f].result = modulesFromCdn[m].var
                    /\ modulesFromCdn' = modulesFromCdn]_vars

\* C1 witness: a second, non-overlapping request of a committed module
\* returned from the registry.
C1_Witness ==
    \E r \in 2..Len(requests) :
        /\ <<r>> \in DOMAIN frames
        /\ frames[<<r>>].how = "hit"
        /\ frames[<<r>>].result = "A"
        /\ ~overlapped[frames[<<r>>].m]
        /\ resolverCalls[frames[<<r>>].m] = 1

(***************************************************************************)
(* C2  Conflict monotonicity.                                              *)
(***************************************************************************)
\* C2: a call entered for a modulePath that the registry holds at a version
\* other than the one installed for the caller returns false at once, does
\* not invoke the strategy and leaves the whole registry unchanged.
C2_ConflictKeepsEntry ==
    [][\A f \in (DOMAIN frames') \ DOMAIN frames :
          LET m == frames'[f].m
              ctx == frames'[f].ctx
          IN  ( /\ HasEntry(m)
                /\ Installed(ctx, m)
                /\ InstalledVersion(ctx, m) # modulesFromCdn[m].version )
              => /\ frames'[f].pc = "done"
                 /\ frames'[f].result = False
                 /\ ~frames'[f].called
                 /\ resolverCalls'[m] = resolverCalls[m]
                 /\ modulesFromCdn' = modulesFromCdn]_vars

\* C2 witness: a call found its module registered at another version.
C2_Witness ==
    \E f \in DOMAIN frames :
        /\ frames[f].how = "conflict"
        /\ HasEntry(frames[f].m)
        /\ modulesFromCdn[frames[f].m].version = "1.0.0"
        /\ InstalledVersion(frames[f].ctx, frames[f].m) = "2.0.0"

(***************************************************************************)
(* C3  Peer requirement.                                                   *)
(***************************************************************************)
\* C3 as claimed: whenever a call with a non-null descriptor has returned and
\* one of the calls it made for a declared peer dependency returned false,
\* with or without a dependency manifest, it returned false and did not commit.
C3_Original ==
    \A f \in DOMAIN frames :
        ( /\ frames[f].cdnConfig.kind = "config"
          /\ frames[f].pc = "done"
          /\ \E g \in Children(f) :
                /\ includes(PkgOf(frames[f]).peerDependencies.keys, frames[g].m)
                /\ frames[g].pc = "done"
                /\ frames[g].result = False )
        => frames[f].result = False /\ frames[f].how # "commit"

\* C3 as amended: for a call with a non-null descriptor and no dependency
\* manifest, once one of its peer calls has returned false the call never
\* commits and never returns anything but false.
C3_PeersRequired ==
    \A f \in DOMAIN frames :
        ( /\ frames[f].cdnConfig.kind = "config"
          /\ ~HasManifest(frames[f])
          /\ PeerReturned(f, IsFalse) # {} )
        => /\ frames[f].how # "commit"
           /\ frames[f].pc = "done" => frames[f].result = False

\* C3 witness: a call returned false because a peer call did.
C3_Witness ==
    \E f \in DOMAIN frames :
        /\ frames[f].how = "peerMissing"
        /\ frames[f].cdnConfig.kind = "config"
        /\ PeerReturned(f, IsFalse) # {}

(***************************************************************************)
(* C4  Peer-dependency partiality.                                         *)
(***************************************************************************)
C4_State ==
    \A f \in DOMAIN frames :
        ( /\ frames[f].pc = "done"
          /\ frames[f].cdnConfig.kind = "config"
          /\ ~HasManifest(frames[f])
          /\ PeerReturned(f, Boolean) # {}
          /\ PeerReturned(f, IsFalse) # {} )
        => /\ frames[f].result = False
           /\ frames[f].how = "peerMissing"
           /\ \A i \in PeerReturned(f, Boolean) : HasEntry(frames[frames[f].kids[i]].m)
           /\ (\A g \in DOMAIN frames : frames[g].m = frames[f].m => frames[g].how # "commit")
                => ~HasEntry(frames[f].m)

\* C4: a call without dependency manifest, one of whose peers resolved and
\* another returned false, returns false and does not commit its module,
\* while the succeeding peers are in the registry when it returns; and no
\* step ever removes a registry entry.
C4_PartialWritesKept ==
    [][ /\ C4_State'
        /\ \A m \in ModulePaths : HasEntry(m) => modulesFromCdn'[m].kind = "config" ]_vars

\* C4 witness: p returned false for its missing peer b while its peer a is
\* registered.
C4_Witness ==
    \E f \in DOMAIN frames :
        /\ frames[f].m = pP
        /\ frames[f].pc = "done"
        /\ frames[f].result = False
        /\ PeerReturned(f, Boolean) # {}
        /\ PeerReturned(f, IsFalse) # {}
        /\ HasEntry(pA)
        /\ ~HasEntry(pP)

(***************************************************************************)
(* C5  Cross-import de-duplication.                                        *)
(***************************************************************************)
\* C5 as claimed: two requests of the same modulePath are never both
\* suspended on a strategy call of their own; the later one waits for the
\* first one's result.
C5_Original ==
    \A r1 \in 1..Len(requests), r2 \in 1..Len(requests) :
        ( /\ r1 < r2
          /\ requests[r1].m = requests[r2].m
          /\ <<r1>> \in DOMAIN frames
          /\ <<r2>> \in DOMAIN frames )
        => ~(frames[<<r1>>].pc = "resolver" /\ frames[<<r2>>].called)

(***************************************************************************)
(* C6  Registry write-once.                                                *)
(***************************************************************************)
\* C6 as claimed: once the registry holds a descriptor for a modulePath, no
\* step replaces it.
C6_Original ==
    [][\A m \in ModulePaths : HasEntry(m) => modulesFromCdn'[m] = modulesFromCdn[m]]_vars

(***************************************************************************)
(* C7  Failure absorption.                                                 *)
(***************************************************************************)
\* C7 as claimed: no call of addModule ever raises, and no module request is
\* left without either the normal factory or an external module.
C7_Original ==
    /\ \A f \in DOMAIN frames : frames[f].pc # "threw"
    /\ \A r \in 1..Len(requests) : requests[r].outcome # "rejected"

(***************************************************************************)
(* C8  Commit result.                                                      *)
(***************************************************************************)
C8_Single ==
    ( /\ Len(requests) = 1
      /\ DOMAIN frames = {<<1>>}
      /\ frames[<<1>>].how = "commit" )
    => {m \in ModulePaths : HasEntry(m)} = {frames[<<1>>].m}

\* C8: the step in which a call commits leaves the registry mapping its
\* modulePath to the descriptor the strategy returns for that modulePath at
\* the installed version, changes no other entry and returns that
\* descriptor's var; after a single request of a module that made no
\* further calls, the registry holds exactly that one entry.
C8_Commit ==
    [][ /\ \A f \in DOMAIN frames :
             (frames[f].how # "commit" /\ frames'[f].how = "commit") =>
                LET m == frames[f].m
                    d == resolver(m, InstalledVersion(frames[f].ctx, m))
                IN  /\ d.kind = "config"
                    /\ modulesFromCdn'[m] = d
                    /\ frames'[f].pc = "done"
                    /\ frames'[f].result = d.var
                    /\ \A o \in ModulePaths \ {m} : modulesFromCdn'[o] = modulesFromCdn[o]
        /\ C8_Single' ]_vars

\* C8 witness: a single request of a, which has neither dependencies nor
\* peers, has committed.
C8_Witness ==
    /\ Len(requests) = 1
    /\ DOMAIN frames = {<<1>>}
    /\ frames[<<1>>].how = "commit"
    /\ frames[<<1>>].result = "A"
    /\ modulesFromCdn[pA] = Config("a", "A", "1.0.0", "/umd/a")

(***************************************************************************)
(* C9  Strategy miss.                                                      *)
(***************************************************************************)
\* C9: the step in which a call learns that the strategy has no mapping
\* returns false, makes no further call of addModule or of the strategy,
\* and leaves the registry unchanged.
C9_StrategyMiss ==
    [][\A f \in DOMAIN frames :
          ( /\ frames[f].pc = "resolver"
            /\ frames'[f].pc # "resolver"
            /\ resolver(frames[f].m, InstalledVersion(frames[f].ctx, frames[f].m)).kind = "null" )
          => /\ frames'[f].pc = "done"
             /\ frames'[f].result = False
             /\ frames'[f].made = 0
             /\ DOMAIN frames' = DOMAIN frames
             /\ resolverCalls' = resolverCalls
             /\ modulesFromCdn' = modulesFromCdn]_vars

\* C9 witness: b, which declares a dependency, got no mapping: it returned
\* false, called nothing and is not registered.
C9_Witness ==
    \E f \in DOMAIN frames :
        /\ frames[f].how = "null"
        /\ frames[f].result = False
        /\ PkgOf(frames[f]).dependencies.keys # <<>>
        /\ Children(f) = {}
        /\ ~HasEntry(frames[f].m)

(***************************************************************************)
(* C10  Eligibility filter.                                                *)
(***************************************************************************)
\* C10: every call for an excluded modulePath, or for one missing from a
\* configured `only` list, has returned false without package lookup,
\* strategy call or further call; the strategy was never invoked for such a
\* modulePath and none is a key of the registry.
C10_Eligibility ==
    /\ \A m \in ModulePaths : ~Eligible(m) => ~HasEntry(m) /\ resolverCalls[m] = 0
    /\ \A f \in DOMAIN frames :
         ~Eligible(frames[f].m) =>
            /\ frames[f].pc = "done"
            /\ frames[f].result = False
            /\ frames[f].version = ""
            /\ ~frames[f].called
            /\ Children(f) = {}

\* C10 witness: a recursive call and a request were both filtered out, while
\* another module was registered.
C10_Witness ==
    /\ \E f \in DOMAIN frames : Len(f) > 1 /\ frames[f].how = "excluded"
    /\ \E f \in DOMAIN frames : Len(f) = 1 /\ frames[f].how = "excluded"
    /\ \E m \in ModulePaths : HasEntry(m)

(***************************************************************************)
(* C11  Mutual exclusivity.                                                *)
(***************************************************************************)
\* C11: when both `exclude` and `only` are supplied the constructor throws:
\* the plugin never becomes ready, its registry is never created and no
\* request, call or strategy invocation happens; with at most one of them
\* supplied construction succeeds and the registry starts empty.
C11_MutualExclusivity ==
    /\ (options.exclude.given /\ options.only.given) =>
          /\ plugin.state # "ready"
          /\ ~plugin.hasRegistry
          /\ requests = <<>>
          /\ DOMAIN frames = {}
          /\ \A m \in ModulePaths : resolverCalls[m] = 0 /\ ~HasEntry(m)
    /\ (~(options.exclude.given /\ options.only.given) /\ plugin.state # "new") =>
          /\ plugin.state = "ready"
          /\ plugin.hasRegistry
          /\ requests = <<>> => \A m \in ModulePaths : ~HasEntry(m)

\* C11 witness: construction with an empty `exclude` and an `only` list has
\* thrown.
C11_Witness ==
    /\ plugin.state = "failed"
    /\ options.exclude.given /\ options.exclude.list = <<>>
    /\ options.only.given

(***************************************************************************)
(* C12  Non-package imports untouched.                                     *)
(***************************************************************************)
C12_State ==
    \A m \in ModulePaths :
        moduleRegexMatch(m) = <<>> =>
            /\ resolverCalls[m] = 0
            /\ ~HasEntry(m)
            /\ \A f \in DOMAIN frames : frames[f].m # m
            /\ \A r \in 1..Len(requests) : requests[r].m = m => requests[r].outcome = "factory"

\* C12: the step that receives a request whose modulePath the package-name
\* pattern does not match hands it to the normal factory and changes neither
\* the calls, the strategy invocations nor the registry; addModule is never
\* called for such a modulePath.
C12_NonPackageUntouched ==
    [][ /\ \A r \in 1..Len(requests') :
             (r > Len(requests) /\ moduleRegexMatch(requests'[r].m) = <<>>) =>
                /\ requests'[r].outcome = "factory"
                /\ frames' = frames
                /\ resolverCalls' = resolverCalls
                /\ modulesFromCdn' = modulesFromCdn
        /\ C12_State' ]_vars

\* C12 witness: a relative import and a path with a one-letter scope were
\* both handed to the normal factory.
C12_Witness ==
    /\ Len(requests) = 2
    /\ {requests[1].m, requests[2].m} = {pRel, pScoped}
    /\ requests[1].outcome = "factory" /\ requests[2].outcome = "factory"
    /\ DOMAIN frames = {}

(***************************************************************************)
(* C13  Ordering of sub-dependency expansion.                              *)
(***************************************************************************)
\* the calls made below call g, g included
Subtree(g) == {h \in DOMAIN frames : Len(h) >= Len(g) /\ SubSeq(h, 1, Len(g)) = g}

DeclaredDependencies(fr) ==
    IF PkgOf(fr).dependencies.present THEN PkgOf(fr).dependencies.keys ELSE <<>>

DeclaredPeers(fr) ==
    IF PkgOf(fr).peerDependencies.present THEN PkgOf(fr).peerDependencies.keys ELSE <<>>

\* the calls of a module that has a descriptor and no dependency manifest
Expanding == {f \in DOMAIN frames :
                 frames[f].cdnConfig.kind = "config" /\ ~HasManifest(frames[f])}

\* C13: for a module without a dependency manifest, the k-th call it makes is
\* for its k-th declared dependency and is made only when the calls for the
\* earlier ones, with everything below them, have returned; the calls for its
\* peer dependencies are made together, in one step, after every dependency
\* call with its subtree has returned; and its outcome (commit or false) is
\* decided only after every peer call has returned.
C13_Ordering ==
    \A f \in Expanding :
        LET fr == frames[f]
            D == DeclaredDependencies(fr)
            P == DeclaredPeers(fr)
        IN  /\ Children(f) = {Append(f, k) : k \in 1..fr.made}
            /\ fr.made \in 0..Len(D) \/ fr.made = Len(D) + Len(P)
            /\ \A k \in 1..fr.made :
                  /\ k <= Len(D) =>
                        /\ frames[Append(f, k)].m = D[k]
                        /\ \A j \in 1..(k - 1) :
                              \A h \in Subtree(Append(f, j)) : frames[h].pc = "done"
                  /\ k > Len(D) =>
                        /\ frames[Append(f, k)].m = P[k - Len(D)]
                        /\ fr.kids = [i \in 1..Len(P) |-> Append(f, Len(D) + i)]
                        /\ \A j \in 1..Len(D) :
                              \A h \in Subtree(Append(f, j)) : frames[h].pc = "done"
            /\ fr.pc = "depLoop" => fr.made \in 1..Len(D)
            /\ (fr.pc = "done" /\ P # <<>>) =>
                  /\ fr.made = Len(D) + Len(P)
                  /\ \A i \in 1..Len(P) : frames[fr.kids[i]].pc = "done"

\* C13 witness: w, which declares the dependencies r and b and the peers z
\* and a, has gone through both loops and decided its outcome.
C13_Witness ==
    \E f \in Expanding :
        /\ frames[f].m = pW
        /\ frames[f].pc = "done"
        /\ frames[f].made = 4
        /\ Cardinality(Subtree(Append(f, 1))) = 2

(***************************************************************************)
(* C14  Discarded dependency outcomes.                                     *)
(***************************************************************************)
\* the peer calls of frame f have all returned a variable name
PeersSatisfied(f) ==
    /\ Len(frames[f].kids) = Len(DeclaredPeers(frames[f]))
    /\ \A i \in 1..Len(frames[f].kids) :
          /\ frames[frames[f].kids[i]].pc = "done"
          /\ frames[frames[f].kids[i]].result \notin {False, Undefined}

\* the calls frame f made for manifest names or declared dependencies
LoopChildren(f) == Children(f) \ {frames[f].kids[i] : i \in 1..Len(frames[f].kids)}

\* C14: a completed call whose descriptor is not null and whose module either
\* has a dependency manifest or has all its declared peers satisfied has
\* committed its descriptor and returned its var, whatever the calls for the
\* manifest names or the declared dependencies returned.
C14_DependenciesNeverGate ==
    \A f \in DOMAIN frames :
        ( /\ frames[f].pc = "done"
          /\ frames[f].cdnConfig.kind = "config"
          /\ HasManifest(frames[f]) \/ PeersSatisfied(f) ) =>
            /\ frames[f].how = "commit"
            /\ frames[f].result = frames[f].cdnConfig.var
            /\ HasEntry(frames[f].m)

\* C14 witness: q (dependency manifest) has committed although the call for
\* one of its manifest names returned false, and e (declared dependencies)
\* has committed although the call for every declared dependency did.
C14_Witness ==
    \E f \in DOMAIN frames, g \in DOMAIN frames :
        /\ frames[f].m = pQ /\ frames[f].how = "commit" /\ HasManifest(frames[f])
        /\ \E h \in LoopChildren(f) : frames[h].result = False
        /\ frames[g].m = pE /\ frames[g].how = "commit" /\ ~HasManifest(frames[g])
        /\ LoopChildren(g) # {}
        /\ \A h \in LoopChildren(g) : frames[h].result = False

(***************************************************************************)
(* C15  Result domain of addModule.                                        *)
(***************************************************************************)
\* C15 as claimed: every completed call returns false or a variable name,
\* never the absent value.
C15_Original ==
    \A f \in DOMAIN frames :
        frames[f].pc = "done" => frames[f].result # Undefined

\* C15: a completed call that ended at the registry check's cache hit or at
\* the commit returns the `var` of the descriptor the strategy gives for its
\* modulePath and version, which is the absent value when the descriptor
\* carries no var; every other completed call returns false; and the hook
\* renders the empty placeholder exactly for the calls that returned the
\* absent value.
C15_ResultDomain ==
    /\ \A f \in DOMAIN frames :
          frames[f].pc = "done" =>
             IF frames[f].how \in {"commit", "hit"}
             THEN /\ resolver(frames[f].m, frames[f].version).kind = "config"
                  /\ frames[f].result = resolver(frames[f].m, frames[f].version).var
             ELSE frames[f].result = False
    /\ \A r \in 1..Len(requests) :
          requests[r].outcome = "externalEmpty" <=>
             /\ <<r>> \in DOMAIN frames
             /\ requests[r].outcome # "pending"
             /\ frames[<<r>>].pc = "done"
             /\ frames[<<r>>].result = Undefined

\* C15 witness: z, whose descriptor carries no var, was committed by one call
\* and found in the registry by another; both returned the absent value and
\* the hook rendered an empty placeholder.
C15_Witness ==
    /\ \E f \in DOMAIN frames, g \in DOMAIN frames :
          /\ frames[f].m = pZ /\ frames[f].how = "commit" /\ frames[f].result = Undefined
          /\ frames[g].m = pZ /\ frames[g].how = "hit" /\ frames[g].result = Undefined
    /\ \E r \in 1..Len(requests) : requests[r].outcome = "externalEmpty"

(***************************************************************************)
(* C16  Termination.                                                       *)
(***************************************************************************)
\* call g was made, directly or not, by call f
Nested(f, g) == Len(g) > Len(f) /\ SubSeq(g, 1, Len(f)) = f

\* C16 as claimed: the registry bounds the recursion, so a call never makes,
\* directly or through the calls it makes, another call for its own
\* modulePath that invokes the strategy again.
C16_Original ==
    \A f \in DOMAIN frames, g \in DOMAIN frames :
        (Nested(f, g) /\ frames[f].m = frames[g].m) =>
            ~(frames[f].called /\ frames[g].called)

(***************************************************************************)
(* C17  Single-walk de-duplication.                                        *)
(***************************************************************************)
\* C17 as claimed: while a single request has been made, no two calls that
\* are not nested in one another (two branches of the same walk) have both
\* invoked the strategy for the same modulePath.
C17_Original ==
    Len(requests) = 1 =>
        \A f \in DOMAIN frames, g \in DOMAIN frames :
            ( /\ f # g
              /\ ~Nested(f, g) /\ ~Nested(g, f)
              /\ frames[f].m = frames[g].m )
            => ~(frames[f].called /\ frames[g].called)

(***************************************************************************)
(* C18  Peer success is judged by externalisation.                         *)
(***************************************************************************)
\* C18 as claimed: a call returns false for a missing peer only when one of
\* its peer calls returned false; a peer call that returned the absent
\* variable name of a committed descriptor does not count as failed.
C18_Original ==
    \A f \in DOMAIN frames :
        frames[f].how = "peerMissing" =>
            \E i \in 1..Len(frames[f].kids) : frames[frames[f].kids[i]].result = False

(***************************************************************************)
(* C19  Peer-closed registry.                                              *)
(***************************************************************************)
C19_PeerClosed ==
    \A f \in Expanding :
        frames[f].how = "commit" =>
            /\ HasEntry(frames[f].m)
            /\ \A i \in 1..Len(DeclaredPeers(frames[f])) :
                  HasEntry(DeclaredPeers(frames[f])[i])

\* C19: no step removes a registry entry, and after every step each module
\* committed through the branch without a dependency manifest has a registry
\* entry for every name of its declared peerDependencies.
C19_PeerClosedRegistry ==
    [][ /\ \A m \in ModulePaths : HasEntry(m) => HasEntry(m)'
        /\ C19_PeerClosed' ]_vars

\* C19 witness: a module that declares peers and has no dependency manifest
\* has been committed.
C19_Witness ==
    \E f \in Expanding :
        /\ frames[f].how = "commit"
        /\ DeclaredPeers(frames[f]) # <<>>
        /\ \A i \in 1..Len(DeclaredPeers(frames[f])) :
              HasEntry(DeclaredPeers(frames[f])[i])

=============================================================================
